---- MODULE Spec2Model ----
(***************************************************************************)
(* A model of the sitemap generator (src/s.py): the URL normaliser, the    *)
(* scope filter and the recursive crawl of SitemapGenerator.               *)
(*                                                                         *)
(* URLs are strings.  TLC evaluates Len, \o, SubSeq, Head and Tail on      *)
(* strings, so the string functions below follow the Python code           *)
(* character by character.                                                 *)
(***************************************************************************)
EXTENDS Integers, Sequences, FiniteSets, TLC

VARIABLES
    base_url,       \* self.base_url
    domain,         \* self.domain
    visited_urls,   \* self.visited_urls: a set of strings
    sitemap_urls,   \* self.sitemap_urls: a sequence of records
    seed,           \* the url argument of the outermost call of crawl
    max_pages,      \* the max_pages argument of the running crawl
    stack,          \* the activations of crawl, innermost last
    phase,          \* "idle" (constructed), "crawling", "done" (crawl returned)
    responses,      \* what each fetch returned and the number of delays before
                    \* it, in fetch order (history)
    rejected,       \* normalized links that failed is_valid_url (history)
    sleeps,         \* number of time.sleep(1) calls so far (history)
    calls,          \* number of calls of crawl on the generator so far
    earlier,        \* the arguments and the outcome of each call of crawl that
                    \* has returned and was followed by another (history)
    pure_in,        \* input of the pure-function harness
    pure_out,       \* results of normalize_url in the pure-function harness
    valid_out       \* result of is_valid_url in the pure-function harness

vars == <<base_url, domain, visited_urls, sitemap_urls, seed, max_pages, stack,
          phase, responses, rejected, sleeps, calls, earlier, pure_in,
          pure_out, valid_out>>

crawlVars == <<base_url, domain, visited_urls, sitemap_urls, seed, max_pages,
               stack, phase, responses, rejected, sleeps, calls, earlier>>

pureVars == <<pure_in, pure_out, valid_out>>

----------------------------------------------------------------------------
(* Bounds of the model.                                                    *)

\* largest max_pages argument tried
MaxBudget == 3
\* largest number of calls of crawl on one generator
MaxCalls == 2
\* largest number of anchors on one fetched page
MaxAnchors == 3
\* longest tail appended to a URL head in the pure-function harness
MaxTail == 3

----------------------------------------------------------------------------
(* Strings.                                                                *)

\* s[m..n] as Python slices it: empty when the range is empty
Sub(s, m, n) == IF m > n \/ m > Len(s) THEN ""
                ELSE SubSeq(s, m, IF n > Len(s) THEN Len(s) ELSE n)

\* the i-th character of s (1-based)
Ch(s, i) == SubSeq(s, i, i)

\* F applied to the value of e, which is computed once
Let(F(_), e) == CHOOSE r \in {F(x) : x \in {e}} : TRUE

RECURSIVE FindFrom(_, _, _)
\* str.find(c, i - 1) for a one-character c, 1-based; 0 when there is none
FindFrom(s, c, i) ==
    IF i > Len(s) THEN 0
    ELSE IF Ch(s, i) = c THEN i ELSE FindFrom(s, c, i + 1)

\* str.find(c)
Find(s, c) == FindFrom(s, c, 1)

\* c in s
Contains(s, c) == Find(s, c) # 0

\* str.endswith(suf)
EndsWith(s, suf) ==
    Len(s) >= Len(suf) /\ Sub(s, Len(s) - Len(suf) + 1, Len(s)) = suf

LowerStr == "abcdefghijklmnopqrstuvwxyz"
UpperStr == "ABCDEFGHIJKLMNOPQRSTUVWXYZ"

LowerChars == {"a", "b", "c", "d", "e", "f", "g", "h", "i", "j", "k", "l", "m",
               "n", "o", "p", "q", "r", "s", "t", "u", "v", "w", "x", "y", "z"}
UpperChars == {"A", "B", "C", "D", "E", "F", "G", "H", "I", "J", "K", "L", "M",
               "N", "O", "P", "Q", "R", "S", "T", "U", "V", "W", "X", "Y", "Z"}
DigitChars == {"0", "1", "2", "3", "4", "5", "6", "7", "8", "9"}

\* c.isascii() and c.isalpha()
IsAlpha(c) == c \in LowerChars \/ c \in UpperChars

\* c in urllib.parse.scheme_chars
IsSchemeChar(c) == IsAlpha(c) \/ c \in DigitChars \/ c \in {"+", "-", "."}

\* c.lower()
LowerChar(c) == IF c \in UpperChars THEN Ch(LowerStr, Find(UpperStr, c)) ELSE c

RECURSIVE Lower(_)
\* str.lower()
Lower(s) == IF s = "" THEN "" ELSE LowerChar(Head(s)) \o Lower(Tail(s))

----------------------------------------------------------------------------
(* urllib.parse, as far as the program calls it.  The inputs of the model  *)
(* hold no whitespace or control characters, no ';' and no brackets, so    *)
(* the stripping of those, the params component and the IPv6 check of      *)
(* urlsplit do nothing here.                                               *)

uses_netloc == {"", "ftp", "http", "gopher", "nntp", "telnet", "imap", "wais",
                "file", "mms", "https", "shttp", "snews", "prospero", "rtsp",
                "rtsps", "rtspu", "rsync", "svn", "svn+ssh", "sftp", "nfs",
                "git", "git+ssh", "ws", "wss"}

\* the smallest positive number among a, b and c, or dflt
MinPos(a, b, c, dflt) ==
    IF {a, b, c} = {0} THEN dflt
    ELSE CHOOSE i \in {a, b, c} \ {0} : \A j \in {a, b, c} \ {0} : i <= j

\* urlsplit, first step: a scheme is what stands before the first ':' when
\* that is a letter followed by scheme_chars; i is the position of the ':'
SchemeAt(url, i) ==
    IF /\ i > 1
       /\ IsAlpha(Ch(url, 1))
       /\ \A k \in 1..(i - 1) : IsSchemeChar(Ch(url, k))
    THEN [scheme |-> Lower(Sub(url, 1, i - 1)), url |-> Sub(url, i + 1, Len(url))]
    ELSE [scheme |-> "", url |-> url]

SplitScheme(url) == Let(LAMBDA i : SchemeAt(url, i), Find(url, ":"))

\* _splitnetloc(url, 2) for url = "//" \o s: the netloc ends before position
\* d, the first of / ? #
NetlocAt(st, s, d) ==
    [scheme |-> st.scheme, netloc |-> Sub(s, 1, d - 1), url |-> Sub(s, d, Len(s))]

\* urlsplit, second step: a netloc follows "//"
SplitNetloc(st) ==
    IF Sub(st.url, 1, 2) = "//"
    THEN Let(LAMBDA s :
                Let(LAMBDA d : NetlocAt(st, s, d),
                    MinPos(Find(s, "/"), Find(s, "?"), Find(s, "#"), Len(s) + 1)),
             Sub(st.url, 3, Len(st.url)))
    ELSE [scheme |-> st.scheme, netloc |-> "", url |-> st.url]

\* s before position i, s whole when i is 0
Before(s, i) == IF i > 0 THEN Sub(s, 1, i - 1) ELSE s

\* s after position i, nothing when i is 0
After(s, i) == IF i > 0 THEN Sub(s, i + 1, Len(s)) ELSE ""

\* urlsplit, third step: the fragment follows the first '#'
SplitFragment(st) ==
    Let(LAMBDA i : [scheme |-> st.scheme, netloc |-> st.netloc,
                    url |-> Before(st.url, i), fragment |-> After(st.url, i)],
        Find(st.url, "#"))

\* urlsplit, last step: the query follows the first '?'
SplitQuery(st) ==
    Let(LAMBDA i : [scheme |-> st.scheme, netloc |-> st.netloc,
                    path |-> Before(st.url, i), query |-> After(st.url, i),
                    fragment |-> st.fragment],
        Find(st.url, "?"))

\* urlsplit(url): scheme, netloc, path, query, fragment
urlsplit(url) ==
    Let(SplitQuery, Let(SplitFragment, Let(SplitNetloc, SplitScheme(url))))

\* s, and sep before it, when s is not empty
Prefixed(sep, s) == IF s # "" THEN sep \o s ELSE ""

\* urlunsplit((scheme, netloc, url, query, fragment))
urlunsplit(p) ==
    (IF p.scheme # "" THEN p.scheme \o ":" ELSE "")
    \o (IF p.netloc # "" \/ (p.scheme # "" /\ p.scheme \in uses_netloc
                             /\ Sub(p.path, 1, 2) # "//")
        THEN "//" \o p.netloc
                  \o (IF p.path # "" /\ Sub(p.path, 1, 1) # "/" THEN "/" ELSE "")
        ELSE "")
    \o p.path
    \o Prefixed("?", p.query)
    \o Prefixed("#", p.fragment)

\* urldefrag(url)[0]
urldefrag(url) ==
    IF Contains(url, "#")
    THEN Let(urlunsplit, [urlsplit(url) EXCEPT !.fragment = ""])
    ELSE url

----------------------------------------------------------------------------
(* SitemapGenerator: the pure functions.                                   *)

\* url[:-1] when url ends with '/'
StripSlash(u) == IF EndsWith(u, "/") THEN Sub(u, 1, Len(u) - 1) ELSE u

\* normalize_url(url)
normalize_url(url) == Let(StripSlash, urldefrag(url))

ExcludedSuffixes == {".jpg", ".jpeg", ".png", ".gif", ".pdf", ".zip"}

\* the test of is_valid_url on url and parsed = urlparse(url)
ValidParsed(dom, url, parsed) ==
    /\ parsed.netloc = dom
    /\ parsed.scheme \in {"http", "https"}
    /\ ~ \E suf \in ExcludedSuffixes : EndsWith(url, suf)

\* is_valid_url(url) of a generator whose self.domain is dom
is_valid_url(dom, url) ==
    Let(LAMBDA parsed : ValidParsed(dom, url, parsed), urlsplit(url))

----------------------------------------------------------------------------
(* The environment: the site that is crawled.                              *)

\* the URL the generator is constructed with
BaseUrls == {"http://a.com/", "http://b.com/"}

\* the URLs crawl may be started on
Seeds == {"http://a.com/", "http://a.com/a/#f", "http://a.com/i.jpg",
          "ftp://a.com/x"}

\* what urljoin(url, href) may yield for the anchors of a fetched page
Hrefs == {"http://a.com/#f", "http://a.com/a", "http://b.com/x",
          "http://a.com/i.jpg", "http://a.com/i.jpg//"}

\* the anchors of one page
AnchorSets == {A \in SUBSET Hrefs : Cardinality(A) <= MaxAnchors}

\* datetime.now().strftime('%Y-%m-%d')
Today == "2024-01-01"

----------------------------------------------------------------------------
(* SitemapGenerator.get_links_from_page                                    *)

\* the set the try block builds from the anchors of a page
ExtractLinks(dom, hrefs) ==
    {n \in {normalize_url(h) : h \in hrefs} : is_valid_url(dom, n)}

\* the normalized anchors the scope filter turns down
RejectLinks(dom, hrefs) ==
    {n \in {normalize_url(h) : h \in hrefs} : ~ is_valid_url(dom, n)}

\* get_links_from_page(url): ok is FALSE when the request, the status check
\* or the parse raises, and the except clause returns the empty set
get_links_from_page(dom, ok, hrefs) ==
    IF ok THEN ExtractLinks(dom, hrefs) ELSE {}

----------------------------------------------------------------------------
(* SitemapGenerator.crawl                                                  *)

\* an activation of crawl(url, max_pages) about to run
Frame(url) == [url |-> url, normalized_url |-> "", links |-> {}, pc |-> "enter"]

Top == stack[Len(stack)]

\* the sitemap entry crawl appends
Entry(n) == [loc |-> n, lastmod |-> Today, priority |-> "0.8"]

\* the stack with the innermost activation replaced
SetTop(f) == [stack EXCEPT ![Len(stack)] = f]

\* the innermost activation returns
Return ==
    /\ stack' = SubSeq(stack, 1, Len(stack) - 1)
    /\ phase' = IF Len(stack) = 1 THEN "done" ELSE phase

\* SitemapGenerator(base_url)
Construct(b) ==
    /\ base_url = b
    /\ domain = urlsplit(b).netloc
    /\ visited_urls = {}
    /\ sitemap_urls = <<>>

\* generator.crawl(url, mp) on the constructed generator
Crawl(url, mp) ==
    /\ phase = "idle"
    /\ phase' = "crawling"
    /\ seed' = url
    /\ max_pages' = mp
    /\ stack' = <<Frame(url)>>
    /\ calls' = calls + 1
    /\ UNCHANGED <<base_url, domain, visited_urls, sitemap_urls, responses,
                   rejected, sleeps, earlier, pureVars>>

\* a budget test that lets one page too many through
BudgetSpentOffByOne == Cardinality(visited_urls) > max_pages

\* the budget test of crawl
BudgetSpent == Cardinality(visited_urls) >= max_pages

\* crawl returns at once: the budget is spent
ReturnBudget ==
    /\ phase = "crawling" /\ Top.pc = "enter"
    /\ BudgetSpent
    /\ Return
    /\ UNCHANGED <<base_url, domain, visited_urls, sitemap_urls, seed,
                   max_pages, responses, rejected, sleeps, calls, earlier, pureVars>>

\* crawl returns at once: the normalized URL is already visited
ReturnVisited ==
    /\ phase = "crawling" /\ Top.pc = "enter"
    /\ ~ BudgetSpent
    /\ normalize_url(Top.url) \in visited_urls
    /\ Return
    /\ UNCHANGED <<base_url, domain, visited_urls, sitemap_urls, seed,
                   max_pages, responses, rejected, sleeps, calls, earlier, pureVars>>

\* Record with the guard, the visited set and the entry's loc left open
RecordAs(guard, loc) ==
    /\ phase = "crawling" /\ Top.pc = "enter"
    /\ guard
    /\ LET n == normalize_url(Top.url)
       IN  /\ visited_urls' = visited_urls \cup {n}
           /\ sitemap_urls' = Append(sitemap_urls, Entry(loc))
           /\ stack' = SetTop([Top EXCEPT !.normalized_url = n, !.pc = "fetch"])
    /\ UNCHANGED <<base_url, domain, seed, max_pages, phase, responses,
                   rejected, sleeps, calls, earlier, pureVars>>

\* a crawl that records without testing the budget
RecordNoBudgetCheck ==
    RecordAs(normalize_url(Top.url) \notin visited_urls, normalize_url(Top.url))

\* a crawl that records without testing the visited set
RecordNoVisitedCheck == RecordAs(~ BudgetSpent, normalize_url(Top.url))

\* a crawl that records the URL it was given, not the normalized one
RecordRawUrl ==
    RecordAs(~ BudgetSpent /\ normalize_url(Top.url) \notin visited_urls, Top.url)

\* crawl marks the normalized URL visited and appends its sitemap entry
Record ==
    /\ phase = "crawling" /\ Top.pc = "enter"
    /\ ~ BudgetSpent
    /\ LET n == normalize_url(Top.url)
       IN  /\ n \notin visited_urls
           /\ visited_urls' = visited_urls \cup {n}
           /\ sitemap_urls' = Append(sitemap_urls, Entry(n))
           /\ stack' = SetTop([Top EXCEPT !.normalized_url = n, !.pc = "fetch"])
    /\ UNCHANGED <<base_url, domain, seed, max_pages, phase, responses,
                   rejected, sleeps, calls, earlier, pureVars>>

\* a crawl that fetches the URL it was called on, not the normalized one
FetchRawUrl(ok, hrefs) ==
    /\ phase = "crawling" /\ Top.pc = "fetch"
    /\ LET links == get_links_from_page(domain, ok, hrefs)
       IN  /\ stack' = SetTop([Top EXCEPT !.links = links, !.pc = "loop"])
           /\ responses' = Append(responses,
                  [url |-> Top.url, ok |-> ok, links |-> links,
                   sleeps |-> sleeps])
    /\ rejected' = rejected \cup (IF ok THEN RejectLinks(domain, hrefs) ELSE {})
    /\ UNCHANGED <<base_url, domain, visited_urls, sitemap_urls, seed,
                   max_pages, phase, sleeps, calls, earlier, pureVars>>

\* links = self.get_links_from_page(normalized_url)
Fetch(ok, hrefs) ==
    /\ phase = "crawling" /\ Top.pc = "fetch"
    /\ LET links == get_links_from_page(domain, ok, hrefs)
       IN  /\ stack' = SetTop([Top EXCEPT !.links = links, !.pc = "loop"])
           /\ responses' = Append(responses,
                  [url |-> Top.normalized_url, ok |-> ok, links |-> links,
                   sleeps |-> sleeps])
    /\ rejected' = rejected \cup (IF ok THEN RejectLinks(domain, hrefs) ELSE {})
    /\ UNCHANGED <<base_url, domain, visited_urls, sitemap_urls, seed,
                   max_pages, phase, sleeps, calls, earlier, pureVars>>

\* self.session.get(url) sends a request: requests raises MissingSchema or
\* InvalidSchema for a URL that is not an http or https URL
CanFetch(url) == urlsplit(url).scheme \in {"http", "https"}

\* the page is fetched and parsed
FetchOk ==
    /\ phase = "crawling" /\ Top.pc = "fetch"
    /\ CanFetch(Top.normalized_url)
    /\ \E hrefs \in AnchorSets : Fetch(TRUE, hrefs)

\* a failed fetch whose exception is not caught: every activation unwinds
FetchFailAbort ==
    /\ phase = "crawling" /\ Top.pc = "fetch"
    /\ stack' = <<>>
    /\ phase' = "done"
    /\ responses' = Append(responses,
           [url |-> Top.normalized_url, ok |-> FALSE, links |-> {},
            sleeps |-> sleeps])
    /\ UNCHANGED <<base_url, domain, visited_urls, sitemap_urls, seed,
                   max_pages, rejected, sleeps, calls, earlier, pureVars>>

\* the fetch or the parse raises
FetchFail == Fetch(FALSE, {})

\* a loop that does not move past a visited link
LoopSkipStuck ==
    /\ phase = "crawling" /\ Top.pc = "loop"
    /\ \E link \in Top.links : link \in visited_urls
    /\ UNCHANGED vars

\* the loop takes a link that is already visited and passes over it
LoopSkip ==
    /\ phase = "crawling" /\ Top.pc = "loop"
    /\ \E link \in Top.links :
          /\ link \in visited_urls
          /\ stack' = SetTop([Top EXCEPT !.links = @ \ {link}])
    /\ UNCHANGED <<base_url, domain, visited_urls, sitemap_urls, seed,
                   max_pages, phase, responses, rejected, sleeps, calls, earlier, pureVars>>

\* a loop that looks at the budget first: once it is spent an unvisited link
\* is passed over without delay and without a call
LoopRecurseWithinBudget ==
    /\ phase = "crawling" /\ Top.pc = "loop"
    /\ \E link \in Top.links :
          /\ link \notin visited_urls
          /\ stack' = IF BudgetSpent
                      THEN SetTop([Top EXCEPT !.links = @ \ {link}])
                      ELSE Append(SetTop([Top EXCEPT !.links = @ \ {link}]),
                                  Frame(link))
    /\ sleeps' = IF BudgetSpent THEN sleeps ELSE sleeps + 1
    /\ UNCHANGED <<base_url, domain, visited_urls, sitemap_urls, seed,
                   max_pages, phase, responses, rejected, calls, earlier, pureVars>>

\* a loop that sleeps and calls crawl on every link, visited or not
LoopRecurseAnyLink ==
    /\ phase = "crawling" /\ Top.pc = "loop"
    /\ \E link \in Top.links :
          stack' = Append(SetTop([Top EXCEPT !.links = @ \ {link}]), Frame(link))
    /\ sleeps' = sleeps + 1
    /\ UNCHANGED <<base_url, domain, visited_urls, sitemap_urls, seed,
                   max_pages, phase, responses, rejected, calls, earlier, pureVars>>

\* a loop that calls crawl on an unvisited link without sleeping first
LoopRecurseNoSleep ==
    /\ phase = "crawling" /\ Top.pc = "loop"
    /\ \E link \in Top.links :
          /\ link \notin visited_urls
          /\ stack' = Append(SetTop([Top EXCEPT !.links = @ \ {link}]),
                             Frame(link))
    /\ UNCHANGED <<base_url, domain, visited_urls, sitemap_urls, seed,
                   max_pages, phase, responses, rejected, sleeps, calls,
                   earlier, pureVars>>

\* the loop takes a link that is not visited: it sleeps, then calls crawl
LoopRecurse ==
    /\ phase = "crawling" /\ Top.pc = "loop"
    /\ \E link \in Top.links :
          /\ link \notin visited_urls
          /\ stack' = Append(SetTop([Top EXCEPT !.links = @ \ {link}]),
                             Frame(link))
    /\ sleeps' = sleeps + 1
    /\ UNCHANGED <<base_url, domain, visited_urls, sitemap_urls, seed,
                   max_pages, phase, responses, rejected, calls, earlier, pureVars>>

\* the loop is over and crawl returns
LoopEnd ==
    /\ phase = "crawling" /\ Top.pc = "loop"
    /\ Top.links = {}
    /\ Return
    /\ UNCHANGED <<base_url, domain, visited_urls, sitemap_urls, seed,
                   max_pages, responses, rejected, sleeps, calls, earlier, pureVars>>

\* the first call of crawl, on a seed and a budget
Start == \E url \in Seeds, mp \in 0..MaxBudget : Crawl(url, mp)

\* crawl has not been called
NotStarted ==
    /\ seed = ""
    /\ max_pages = 0
    /\ stack = <<>>
    /\ phase = "idle"
    /\ responses = <<>>
    /\ rejected = {}
    /\ sleeps = 0
    /\ calls = 0
    /\ earlier = <<>>

\* the generator after construction, before crawl is called
Idle ==
    /\ \E b \in BaseUrls : Construct(b)
    /\ NotStarted

Init ==
    /\ Idle
    /\ pure_in = ""
    /\ pure_out = <<>>
    /\ valid_out = <<>>

Next ==
    \/ Start
    \/ ReturnBudget
    \/ ReturnVisited
    \/ Record
    \/ FetchOk
    \/ FetchFail
    \/ LoopSkip
    \/ LoopRecurse
    \/ LoopEnd

Spec == Init /\ [][Next]_vars

\* every call, fetch and delay completes
FairSpec == Spec /\ WF_vars(Next)

----------------------------------------------------------------------------
(* The generator used again: crawl called on an instance on which a call   *)
(* of crawl has returned.                                                  *)

\* the call that has just returned, as the history keeps it
Returned ==
    [seed |-> seed, max_pages |-> max_pages, visited_urls |-> visited_urls,
     sitemap_urls |-> sitemap_urls, fetches |-> Len(responses)]

\* a call of crawl that starts from an empty visited set and record list
CrawlAgainFresh(url, mp) ==
    /\ phase = "done"
    /\ calls < MaxCalls
    /\ phase' = "crawling"
    /\ seed' = url
    /\ max_pages' = mp
    /\ stack' = <<Frame(url)>>
    /\ calls' = calls + 1
    /\ earlier' = Append(earlier, Returned)
    /\ visited_urls' = {}
    /\ sitemap_urls' = <<>>
    /\ UNCHANGED <<base_url, domain, responses, rejected, sleeps, pureVars>>

\* generator.crawl(url, mp) on a generator whose last call of crawl returned
CrawlAgain(url, mp) ==
    /\ phase = "done"
    /\ calls < MaxCalls
    /\ phase' = "crawling"
    /\ seed' = url
    /\ max_pages' = mp
    /\ stack' = <<Frame(url)>>
    /\ calls' = calls + 1
    /\ earlier' = Append(earlier, Returned)
    /\ UNCHANGED <<base_url, domain, visited_urls, sitemap_urls, responses,
                   rejected, sleeps, pureVars>>

\* another call of crawl, on a seed, with the budget of the call before
Restart == \E url \in Seeds : CrawlAgain(url, max_pages)

ReuseNext ==
    \/ Start
    \/ Restart
    \/ ReturnBudget
    \/ ReturnVisited
    \/ Record
    \/ FetchOk
    \/ FetchFail
    \/ LoopSkip
    \/ LoopRecurse
    \/ LoopEnd

ReuseSpec == Init /\ [][ReuseNext]_vars

----------------------------------------------------------------------------
(* main: the program run from the command line.  The generator is built    *)
(* for WEBSITE_URL and crawl is called on that same URL, with MAX_PAGES    *)
(* converted by int().                                                     *)

\* the values of the environment variable WEBSITE_URL
WebsiteUrls == {"http://a.com/", "not-a-url"}

\* the decimal numeral of n, for n below ten
Numeral(n) == Ch("0123456789", n + 1)

\* the values of the environment variable MAX_PAGES
MaxPagesSettings == {Numeral(n) : n \in 0..MaxBudget} \cup {"", "many", "1x"}

\* int(s) succeeds: s is a string of decimal digits (the settings of the
\* model hold no sign, blank or underscore)
IsDecimal(s) == s # "" /\ \A k \in 1..Len(s) : Ch(s, k) \in DigitChars

RECURSIVE int(_)
\* int(s) for a string of decimal digits
int(s) ==
    IF s = "" THEN 0
    ELSE 10 * int(Sub(s, 1, Len(s) - 1)) + (Find("0123456789", Ch(s, Len(s))) - 1)

\* main reads its settings and calls crawl on the URL the generator was
\* built for
MainCrawl ==
    \E setting \in MaxPagesSettings :
        /\ IsDecimal(setting)
        /\ Crawl(base_url, int(setting))

\* int() raises ValueError: main ends before it builds or runs the crawl
MainValueError ==
    /\ phase = "idle"
    /\ \E setting \in MaxPagesSettings : ~ IsDecimal(setting)
    /\ phase' = "failed"
    /\ UNCHANGED <<base_url, domain, visited_urls, sitemap_urls, seed,
                   max_pages, stack, responses, rejected, sleeps, calls,
                   earlier, pureVars>>

\* the program at its start, with the fields main's generator will have
MainInit ==
    /\ \E b \in WebsiteUrls : Construct(b)
    /\ NotStarted
    /\ pure_in = ""
    /\ pure_out = <<>>
    /\ valid_out = <<>>

MainNext ==
    \/ MainCrawl
    \/ MainValueError
    \/ ReturnBudget
    \/ ReturnVisited
    \/ Record
    \/ FetchOk
    \/ FetchFail
    \/ LoopSkip
    \/ LoopRecurse
    \/ LoopEnd

MainSpec == MainInit /\ [][MainNext]_vars

----------------------------------------------------------------------------
(* The pure functions on their own: normalize_url applied to a URL, and    *)
(* then to its own result.                                                 *)

RECURSIVE StringsUpTo(_, _)
\* the strings over the characters C of length at most n
StringsUpTo(C, n) ==
    IF n = 0 THEN {""}
    ELSE StringsUpTo(C, n - 1)
         \cup {s \o c : s \in StringsUpTo(C, n - 1), c \in C}

Heads == {"", "x", "http://a.com", "http://a.com/x", "HTTP://a.com/x",
          "https://a.com/p.jpg", "ftp://a.com/x", "http://b.com",
          "http://a.com/img.png", "http://a.com/page", "http://sub.a.com/x",
          "http://a.com/i.JPG"}

TailChars == {"/", "#", "?", "f"}

\* the URLs the pure functions are applied to
Inputs == {h \o t : h \in Heads, t \in StringsUpTo(TailChars, MaxTail)}

PureInit ==
    /\ Idle
    /\ pure_in \in Inputs
    /\ pure_out = <<>>
    /\ valid_out = <<>>

\* normalize_url(url)
NormalizeInput ==
    /\ pure_out = <<>>
    /\ pure_out' = <<normalize_url(pure_in)>>
    /\ UNCHANGED <<pure_in, valid_out, crawlVars>>

\* normalize_url(normalize_url(url))
NormalizeAgain ==
    /\ Len(pure_out) = 1
    /\ pure_out' = Append(pure_out, normalize_url(pure_out[1]))
    /\ UNCHANGED <<pure_in, valid_out, crawlVars>>

\* is_valid_url(url)
ValidateInput ==
    /\ valid_out = <<>>
    /\ valid_out' = <<is_valid_url(domain, pure_in)>>
    /\ UNCHANGED <<pure_in, pure_out, crawlVars>>

PureNext == NormalizeInput \/ NormalizeAgain \/ ValidateInput

PureSpec == PureInit /\ [][PureNext]_vars

----------------------------------------------------------------------------
(* Properties of the crawl.                                                *)

\* the loc values of the sitemap entries, in order
Locs == [i \in 1..Len(sitemap_urls) |-> sitemap_urls[i].loc]

\* the URLs fetched so far, in order
FetchedUrls == [i \in 1..Len(responses) |-> responses[i].url]

Range(f) == {f[i] : i \in DOMAIN f}

\* C1: at every moment of a crawl on a fresh generator the number of sitemap
\* entries and the number of visited URLs are at most max_pages.
C1_AtMostMaxPages ==
    phase \in {"crawling", "done"} =>
        /\ Len(sitemap_urls) <= max_pages
        /\ Cardinality(visited_urls) <= max_pages

\* a call of crawl on an unvisited URL is about to be turned away by the budget
C1_Witness ==
    /\ phase = "crawling" /\ Top.pc = "enter"
    /\ max_pages >= 2
    /\ Len(sitemap_urls) = max_pages
    /\ normalize_url(Top.url) \notin visited_urls

\* C2: the loc values of the sitemap entries are pairwise distinct, and each
\* is a visited URL.
C2_DistinctLocs ==
    /\ \A i, j \in 1..Len(sitemap_urls) :
          i # j => sitemap_urls[i].loc # sitemap_urls[j].loc
    /\ Range(Locs) = visited_urls

\* crawl was called on a URL whose normalized form is visited, two entries in
C2_Witness ==
    /\ phase = "crawling" /\ Top.pc = "enter"
    /\ ~ BudgetSpent
    /\ Len(sitemap_urls) >= 2
    /\ normalize_url(Top.url) \in visited_urls

\* C3: every crawl returns, when every call, fetch and delay completes.
C3_Terminates == <>(phase = "done")

\* a crawl has returned after fetching a page that links to itself and a page
\* that links back to the page that led to it
C3_Witness ==
    /\ phase = "done"
    /\ \E i \in 1..Len(responses) : responses[i].url \in responses[i].links
    /\ \E i, j \in 1..Len(responses) :
          /\ i < j
          /\ responses[j].url \in responses[i].links
          /\ responses[i].url \in responses[j].links

\* C4: a normalized link that the scope filter has turned down is from then
\* on never added to the visited set, never recorded and never fetched.
C4_RejectedStaysOut ==
    [][\A u \in rejected :
          /\ u \in visited_urls' => u \in visited_urls
          /\ u \in Range(Locs)' => u \in Range(Locs)
          /\ u \in Range(FetchedUrls)' => u \in Range(FetchedUrls)]_vars

\* the last fetch failed
LastFetchFailed == responses # <<>> /\ ~ responses[Len(responses)].ok

\* C5, in every state: a page whose fetch failed is visited and recorded and
\* has contributed no links, and a crawl whose first fetch failed ends with
\* the normalized seed as its only entry.
C5_FailedPageKept ==
    /\ \A i \in 1..Len(responses) :
          ~ responses[i].ok =>
              /\ responses[i].links = {}
              /\ responses[i].url \in visited_urls
              /\ responses[i].url \in Range(Locs)
    /\ (phase = "done" /\ responses # <<>> /\ ~ responses[1].ok) =>
           sitemap_urls = <<Entry(normalize_url(seed))>>

\* C5, in every step: a failing fetch leaves the crawl running, with every
\* activation in place and the callers' remaining links untouched, and the
\* failing activation goes on to its (empty) loop.
C5_FailedFetchStep ==
    (Len(responses') = Len(responses) + 1 /\ LastFetchFailed') =>
        /\ phase' = "crawling"
        /\ Len(stack') = Len(stack)
        /\ \A i \in 1..(Len(stack) - 1) : stack'[i] = stack[i]
        /\ stack'[Len(stack)].pc = "loop"
        /\ stack'[Len(stack)].links = {}

\* C5: a failed fetch is swallowed: the page stays visited and recorded, it
\* contributes no links, and the crawl goes on instead of aborting.
C5_FetchFailureSwallowed == [] C5_FailedPageKept /\ [][C5_FailedFetchStep]_vars

\* after a page other than the seed failed to fetch, the crawl went on and
\* fetched a link of one of its callers
C5_Witness ==
    \E i \in 2..Len(responses) :
        /\ ~ responses[i].ok
        /\ Len(responses) > i
        /\ responses[i + 1].url \in responses[1].links

\* the links a successful fetch of page p returned
LinksOf(p) ==
    UNION {responses[i].links : i \in {j \in 1..Len(responses) : responses[j].url = p}}

RECURSIVE Closure(_)
\* S and all that is reachable from it through links of fetched pages
Closure(S) ==
    IF UNION {LinksOf(p) : p \in S} \subseteq S THEN S
    ELSE Closure(S \cup UNION {LinksOf(p) : p \in S})

\* C6: a crawl that ends below its budget has recorded exactly the normalized
\* seed and the in-scope normalized links reachable from it, the seed first.
C6_RecordsExactlyReachable ==
    (phase = "done" /\ Len(sitemap_urls) < max_pages) =>
        /\ Locs[1] = normalize_url(seed)
        /\ Range(Locs) = Closure({normalize_url(seed)})

\* C7: with max_pages = 1 only the normalized seed is ever fetched, and the
\* crawl ends with the normalized seed as its only entry.
C7_BudgetOfOne ==
    (max_pages = 1 /\ phase \in {"crawling", "done"}) =>
        /\ \A i \in 1..Len(responses) : responses[i].url = normalize_url(seed)
        /\ Len(responses) <= 1
        /\ phase = "done" => sitemap_urls = <<Entry(normalize_url(seed))>>

\* a crawl with max_pages = 1 has returned and the seed's page had a link to
\* a page that was not visited
C7_Witness ==
    /\ phase = "done" /\ max_pages = 1
    /\ Len(responses) = 1
    /\ \E l \in responses[1].links : normalize_url(l) \notin visited_urls

\* C8 as claimed: once the budget is spent no fetch is issued.
C8_NoFetchOnceSpent == [][BudgetSpent => responses' = responses]_vars

\* C8, amended: once the budget is spent nothing more is recorded, and the
\* only fetch still issued is that of the page recorded last, the one that
\* used up the budget.
C8_OnlyLastRecordFetched ==
    [][BudgetSpent =>
          /\ visited_urls' = visited_urls
          /\ sitemap_urls' = sitemap_urls
          /\ responses' # responses =>
                /\ Cardinality(visited_urls) = max_pages
                /\ Len(responses) = Len(sitemap_urls) - 1
                /\ Len(responses') = Len(sitemap_urls)
                /\ responses'[Len(responses')].url
                       = sitemap_urls[Len(sitemap_urls)].loc]_vars

\* the budget is spent, the last recorded page has been fetched and the loop
\* holds a link that is not visited
C8_Witness ==
    /\ phase = "crawling" /\ Top.pc = "loop"
    /\ BudgetSpent
    /\ max_pages >= 2
    /\ \E l \in Top.links : l \notin visited_urls

----------------------------------------------------------------------------
(* Properties of the pure functions.                                       *)

\* C9: normalize_url is idempotent: applied to its own result it returns
\* that result.
C9_Idempotent == Len(pure_out) = 2 => pure_out[2] = pure_out[1]

\* C10: a URL without fragment that does not end in '/' normalizes to the
\* same key with a fragment appended and with one '/' appended.
C10_FragmentAndSlashCollapse ==
    (pure_out # <<>> /\ ~ Contains(pure_in, "#") /\ ~ EndsWith(pure_in, "/")) =>
        /\ normalize_url(pure_in \o "#frag") = pure_out[1]
        /\ normalize_url(pure_in \o "/") = pure_out[1]

\* the components of the normalized URL and of the URL it was made from
NormalizedParts == urlsplit(pure_out[1])
InputParts == urlsplit(pure_in)

C12_ValidIffHostSchemePathExtension ==
    valid_out # <<>> =>
        valid_out[1] = (/\ InputParts.netloc = domain
                        /\ InputParts.scheme \in {"http", "https"}
                        /\ ~ \E suf \in ExcludedSuffixes :
                               EndsWith(InputParts.path, suf))


----------------------------------------------------------------------------
(* Properties of main.                                                     *)

\* the URL names a page that can be requested: an http or https URL with a host
IsPageUrl(url) ==
    urlsplit(url).scheme \in {"http", "https"} /\ urlsplit(url).netloc # ""

\* nothing of a crawl has happened
NothingCrawled == visited_urls = {} /\ sitemap_urls = <<>> /\ responses = <<>>

\* C13, for the max-pages setting: when int() fails the program has stopped
\* before any crawling.
C13_BadMaxPagesIsFatal == phase = "failed" => NothingCrawled

\* C13: an invalid seed URL or a non-numeric max-pages setting stops the
\* program before any URL is visited, recorded or fetched.
C13_ConfigErrorIsFatal ==
    /\ C13_BadMaxPagesIsFatal
    /\ ~ IsPageUrl(base_url) => NothingCrawled


----------------------------------------------------------------------------
(* Properties of the order of the crawl's steps.                           *)

\* C14: fetches are sequential and separated by the delay: at least one
\* time.sleep(1) lies between any two consecutive fetches, and only the
\* innermost activation of crawl can be at its fetch.
C14_FetchesSeparatedByDelay ==
    /\ \A i \in 1..(Len(responses) - 1) :
          responses[i + 1].sleeps > responses[i].sleeps
    /\ \A i \in 1..(Len(stack) - 1) : stack[i].pc = "loop"

\* three pages were fetched one after the other, each by an activation
\* called from the one before
C14_Witness ==
    /\ Len(responses) = 3
    /\ responses[2].url \in responses[1].links
    /\ Len(stack) = 3


\* the innermost activation after a step
NewTop == stack'[Len(stack')]

\* the activations below the innermost one are as they were
CallersWait == \A i \in 1..(Len(stack) - 1) : stack'[i] = stack[i]

\* C15, a recursive call: it is made by the innermost activation, so every
\* activation called for an earlier link has returned with all its
\* descendants, and it is made on a link of that activation that is not
\* visited at this moment.
C15_CallStep ==
    (stack # <<>> /\ Len(stack') = Len(stack) + 1) =>
        /\ CallersWait
        /\ NewTop.url \in Top.links
        /\ NewTop.url \notin visited_urls
        /\ stack'[Len(stack)] = [Top EXCEPT !.links = @ \ {NewTop.url}]

\* C15, a record: it is appended by the innermost activation, for the URL that
\* activation was called on.
C15_RecordStep ==
    sitemap_urls' # sitemap_urls =>
        /\ CallersWait
        /\ Len(stack') = Len(stack)
        /\ sitemap_urls' = Append(sitemap_urls, Entry(NewTop.normalized_url))
        /\ NewTop.normalized_url = normalize_url(Top.url)

\* C15: the traversal is depth-first: a page takes its next link only after
\* the call on the link before has returned, all records in between being
\* made by descendants of that link, and crawl is called on a link only if
\* the link is not visited at the moment of the call.
C15_DepthFirst == [][C15_CallStep /\ C15_RecordStep]_vars

\* back in the seed's loop, a link of the seed was visited meanwhile by a
\* descendant of an earlier link, as the third page
C15_Witness ==
    /\ Len(stack) = 1 /\ Top.pc = "loop"
    /\ Len(sitemap_urls) = 3
    /\ Locs[3] \in Top.links


\* C16, in every state: the number of visited URLs (the page counter) is the
\* number of records, and the record locations are the visited set.
C16_CountsAgree ==
    /\ Cardinality(visited_urls) = Len(sitemap_urls)
    /\ Range(Locs) = visited_urls

\* C16, in every step: the visited set only grows and the record list is
\* only extended at its end, by one entry for the one URL that was inserted.
C16_GrowStep ==
    /\ visited_urls \subseteq visited_urls'
    /\ Len(sitemap_urls') >= Len(sitemap_urls)
    /\ SubSeq(sitemap_urls', 1, Len(sitemap_urls)) = sitemap_urls
    /\ visited_urls' # visited_urls =>
          /\ Len(sitemap_urls') = Len(sitemap_urls) + 1
          /\ visited_urls' = visited_urls \cup {sitemap_urls'[Len(sitemap_urls')].loc}

\* C16: budget and record bookkeeping stay consistent and monotone.
C16_BookkeepingConsistent == [] C16_CountsAgree /\ [][C16_GrowStep]_vars

\* the third page has been inserted and recorded
C16_Witness ==
    /\ phase = "crawling" /\ Top.pc = "fetch"
    /\ Cardinality(visited_urls) = 3
    /\ Len(stack) = 2


\* an activation has recorded its URL and not yet fetched it
FetchPending == phase = "crawling" /\ Top.pc = "fetch"

\* C17: the fetches are the fetches of the records, in the order of the
\* records and one for each: the i-th fetch is of the i-th recorded URL, at
\* most the last record is still unfetched, and only while its activation
\* stands right before its fetch; when the crawl has returned there are as
\* many fetches as records, at most max_pages.
C17_FetchedOnceWhenRecorded ==
    /\ Len(responses) <= Len(sitemap_urls)
    /\ \A i \in 1..Len(responses) : responses[i].url = sitemap_urls[i].loc
    /\ \A i, j \in 1..Len(responses) :
          i # j => responses[i].url # responses[j].url
    /\ Len(sitemap_urls) =
          (IF FetchPending THEN Len(responses) + 1 ELSE Len(responses))
    /\ FetchPending => Top.normalized_url = sitemap_urls[Len(sitemap_urls)].loc
    /\ phase = "done" =>
          Len(responses) = Len(sitemap_urls) /\ Len(responses) <= max_pages

\* a crawl has returned with three pages recorded and fetched, one of them
\* under a URL that differs from the URL crawl was called on
C17_Witness ==
    /\ phase = "done"
    /\ Len(responses) = 3
    /\ normalize_url(seed) # seed


----------------------------------------------------------------------------
(* Properties of the seed.                                                 *)

\* C18, the seed: a crawl with a budget of one page or more on a fresh
\* generator records and fetches the normalized seed first, whatever the
\* scope filter says about it.
C18_SeedAlwaysCrawled ==
    (phase = "done" /\ max_pages >= 1) =>
        /\ sitemap_urls # <<>> /\ sitemap_urls[1].loc = normalize_url(seed)
        /\ responses # <<>> /\ responses[1].url = normalize_url(seed)

\* C18, the other records: each satisfies the scope filter.
C18_LaterRecordsInScope ==
    \A i \in 2..Len(sitemap_urls) : is_valid_url(domain, sitemap_urls[i].loc)

\* C18: the seed is never checked against the scope filter and is always
\* recorded and fetched; every record after the first satisfies the filter.
C18_SeedUnfilteredRestInScope ==
    C18_SeedAlwaysCrawled /\ C18_LaterRecordsInScope


----------------------------------------------------------------------------
(* Properties of the unwinding after the budget is spent.                  *)

\* the links the loops of the active call chain have still to take and that
\* are not visited, each with the depth of its activation
PendingLinks ==
    UNION {{<<i, l>> : l \in stack[i].links \ visited_urls} : i \in DOMAIN stack}

\* C19: once the budget is spent, every step but the last fetch keeps the sum
\* of the delays made and the unvisited links still to take: each such link
\* costs one delay, and none is dropped without one; the call that follows
\* the delay returns at once and records and fetches nothing.
C19_UnwindStep ==
    (phase = "crawling" /\ BudgetSpent) =>
        /\ responses' = responses =>
              sleeps' + Cardinality(PendingLinks') = sleeps + Cardinality(PendingLinks)
        /\ Top.pc = "enter" =>
              /\ stack' = SubSeq(stack, 1, Len(stack) - 1)
              /\ UNCHANGED <<visited_urls, sitemap_urls, responses, sleeps>>

\* C19: after the budget is spent the unwinding still makes one delay for
\* every remaining unvisited link of every page on the call chain.
C19_DelayPerPendingLink == [][C19_UnwindStep]_vars

\* the budget is spent, a call made after a delay is about to return at once,
\* and the seed's page, two levels up, still has an unvisited link to take
C19_Witness ==
    /\ phase = "crawling" /\ BudgetSpent
    /\ Len(stack) = 3 /\ Top.pc = "enter"
    /\ stack[1].links \ visited_urls # {}


----------------------------------------------------------------------------
(* Properties of a generator that is used again.                           *)

\* the call before the running or last one
Previous == earlier[Len(earlier)]

\* the larger of two numbers
Max(a, b) == IF a >= b THEN a ELSE b

\* C20, the same call again: it leaves the visited set and the record list
\* as the call before left them and issues no fetch.
C20_RepeatChangesNothing ==
    (earlier # <<>> /\ seed = Previous.seed /\ max_pages = Previous.max_pages) =>
        /\ visited_urls = Previous.visited_urls
        /\ sitemap_urls = Previous.sitemap_urls
        /\ Len(responses) = Previous.fetches

\* C20, any later call: it starts from the visited set and the records of
\* the call before, which it only extends, and its budget counts the pages
\* of the calls before.
C20_LaterCallShares ==
    earlier # <<>> =>
        /\ Previous.visited_urls \subseteq visited_urls
        /\ SubSeq(sitemap_urls, 1, Len(Previous.sitemap_urls)) = Previous.sitemap_urls
        /\ Cardinality(visited_urls)
              <= Max(max_pages, Cardinality(Previous.visited_urls))

\* C20: the crawl state persists on the generator across calls of crawl.
C20_StatePersistsAcrossCalls == C20_RepeatChangesNothing /\ C20_LaterCallShares

\* a second call with the seed and budget of the first has returned, the
\* first having recorded and fetched two pages
C20_Witness ==
    /\ phase = "done" /\ earlier # <<>>
    /\ seed = Previous.seed /\ max_pages = Previous.max_pages
    /\ Previous.fetches = 2

\* a second call on another seed has recorded a page on top of the two of
\* the first call and stopped at a budget that counts all three
C20_WitnessOtherSeed ==
    /\ phase = "done" /\ earlier # <<>>
    /\ normalize_url(seed) # normalize_url(Previous.seed)
    /\ Len(Previous.sitemap_urls) = 2
    /\ Len(sitemap_urls) = 3 /\ max_pages = 3
    /\ \E i \in 1..Len(responses) : \E l \in responses[i].links :
          l \notin visited_urls


====
